---- MODULE Spec2Model ----
(***************************************************************************)
(* Model of consumers/project_consumer_pinkston.py: a Kafka consumer that  *)
(* decodes JSON temperature readings, keeps a whole-run history and a few  *)
(* module-level analytics counters, redraws a bar chart per reading and    *)
(* prints a report when enough wall-clock time has passed.                 *)
(*                                                                         *)
(* One action per statement group of main / process_message /              *)
(* update_chart, so that a KeyboardInterrupt or an exception can arrive    *)
(* between any two of them.  Temperatures are whole degrees; the printed   *)
(* average is kept in hundredths of a degree, as the ":.2f" format prints  *)
(* it.  Wall-clock time is a counter of whole seconds.                     *)
(***************************************************************************)
EXTENDS Integers, Sequences, FiniteSets, TLC

\* ------------------------------------------------------------ bounds
MaxMessages == 3   \* messages the source may deliver in one run
MaxTime == 2       \* seconds of wall-clock time that may pass in one run
MaxFairMessages == 2   \* messages delivered in the runs checked for liveness
MaxColorBars == 2      \* readings in the histories the bar colours are checked on

\* ------------------------------------------------------------ JSON values
\* A JSON value as json.loads returns it: a number, a string, null (None),
\* or "absent" for a key the object does not have.
Num(v) == [tag |-> "num", n |-> v]
Str(i) == [tag |-> "str", n |-> i]
Null == [tag |-> "null", n |-> 0]
Absent == [tag |-> "absent", n |-> 0]

\* Raw messages the source may yield: text that is not JSON, JSON that is
\* not an object, and JSON objects with any mix of present, null, absent,
\* numeric and non-numeric fields.
TextMsg == [form |-> "text", timestamp |-> Absent, temperature |-> Absent]
ArrayMsg == [form |-> "array", timestamp |-> Absent, temperature |-> Absent]
Obj(ts, temp) == [form |-> "object", timestamp |-> ts, temperature |-> temp]

ValidMsgs == {Obj(Str(1), Num(80)), Obj(Str(2), Num(90)),
              Obj(Str(2), Num(95)), Obj(Str(3), Num(100))}
MissingMsgs == {Obj(Absent, Num(95)), Obj(Str(1), Absent),
                Obj(Null, Num(95)), Obj(Str(1), Null)}
NonNumericMsgs == {Obj(Str(1), Str(9))}
Messages == {TextMsg, ArrayMsg} \cup ValidMsgs \cup MissingMsgs \cup NonNumericMsgs

Thresholds == {90}
WindowSizes == {1}

VARIABLES
    pc,               \* position of the single thread in main / process_message
    consumer,         \* "none", "open" or "closed"
    close_count,      \* calls of consumer.close()
    delivered,        \* messages handed to process_message so far, in order
    msg,              \* process_message's argument
    pre,              \* the module state when process_message was entered
    timestamps,
    temperatures,
    total_messages,
    high_temps_sum,
    high_temp_count,
    window_messages,
    window_start,
    now,              \* time.time()
    threshold,        \* SMOKER_HIGH_TEMP_THRESHOLD_F
    window_size,      \* SMOKER_ROLLING_WINDOW_SIZE
    rolling_window,   \* the deque main creates
    chart,            \* bars currently on the axes
    redraws,          \* completed calls of update_chart
    reports,          \* analytics blocks printed so far
    error_logs        \* logger.error calls so far

vars == <<pc, consumer, close_count, delivered, msg, pre, timestamps, temperatures,
          total_messages, high_temps_sum, high_temp_count, window_messages,
          window_start, now, threshold, window_size, rolling_window, chart,
          redraws, reports, error_logs>>

history == <<timestamps, temperatures>>
analytics == <<total_messages, high_temps_sum, high_temp_count, window_messages, window_start>>
visuals == <<chart, redraws, reports>>
config == <<threshold, window_size, rolling_window>>
source == <<consumer, close_count>>

\* ------------------------------------------------------------ positions
StartupPcs == {"init", "created"}
ProcessPcs == {"parse", "app_ts", "app_temp", "count", "compare",
               "chart_clear", "chart_draw", "elapsed", "report"}
LoopPcs == {"poll"} \cup ProcessPcs
StoppedPcs == {"interrupted", "loop_error", "finally", "done"}

RUNNING == pc \in LoopPcs
STOPPED == pc \in StoppedPcs

\* ------------------------------------------------------------ pure helpers
\* dict.get(key): None for a missing key.
Get(v) == IF v.tag = "absent" THEN Null ELSE v

IsNone(v) == v.tag = "null"

\* "timestamp is None or temperature is None" on the two data.get results.
MissingField_TemperatureOnly(m) == IsNone(Get(m.temperature))

MissingField(m) == IsNone(Get(m.timestamp)) \/ IsNone(Get(m.temperature))

\* temp >= threshold raises TypeError unless temp is a number.
Comparable(v) == v.tag = "num"

IsHigh_Strict(v, thr) == v.n > thr

IsHigh_Inverted(v, thr) == v.n <= thr

IsHigh(v, thr) == v.n >= thr

\* The except clauses of process_message: JSONDecodeError, then Exception.
\* KeyboardInterrupt derives from BaseException only.
IsException(e) == e \in {"JSONDecodeError", "AttributeError", "TypeError"}

Caught_JsonOnly(e) == e = "JSONDecodeError"

Caught_NotJson(e) == e \in {"AttributeError", "TypeError"}

Caught_Everything(e) == TRUE

Caught(e) == e = "JSONDecodeError" \/ IsException(e)

\* The except clauses of main for whatever leaves the for loop.
MainHandler(e) == IF e = "KeyboardInterrupt" THEN "interrupted" ELSE "loop_error"

\* round(100 * num / den) to the nearest integer, ties to even: what
\* f"{num / den:.2f}" prints, in hundredths (num >= 0, den > 0).
RoundHalfEven(num, den) ==
    LET q == (100 * num) \div den
        r == (100 * num) % den
    IN  IF 2 * r < den THEN q
        ELSE IF 2 * r > den THEN q + 1
        ELSE IF q % 2 = 0 THEN q ELSE q + 1

\* avg_high_temp as printed with :.2f, in hundredths.
AvgShown(sum, count) == IF count # 0 THEN RoundHalfEven(sum, count) ELSE 0

\* [color(temp) for temp in temperatures]
BarColor(v, thr) == IF IsHigh(v, thr) THEN "red" ELSE "blue"

Bars(ts, temps, thr) ==
    [i \in 1..Len(temps) |-> [x |-> ts[i], y |-> temps[i], color |-> BarColor(temps[i], thr)]]

AllComparable(temps) == \A i \in 1..Len(temps) : Comparable(temps[i])

Snapshot == [timestamps |-> timestamps, temperatures |-> temperatures,
             total_messages |-> total_messages, high_temps_sum |-> high_temps_sum,
             high_temp_count |-> high_temp_count, window_messages |-> window_messages,
             window_start |-> window_start, redraws |-> redraws,
             nreports |-> Len(reports), error_logs |-> error_logs]

\* ------------------------------------------------------------ initial state
Init ==
    /\ pc = "init"
    /\ consumer = "none"
    /\ close_count = 0
    /\ delivered = <<>>
    /\ msg = TextMsg
    /\ timestamps = <<>>
    /\ temperatures = <<>>
    /\ total_messages = 0
    /\ high_temps_sum = 0
    /\ high_temp_count = 0
    /\ window_messages = 0
    /\ window_start = 0
    /\ now = 0
    /\ threshold \in Thresholds
    /\ window_size \in WindowSizes
    /\ rolling_window = <<>>
    /\ chart = <<>>
    /\ redraws = 0
    /\ reports = <<>>
    /\ error_logs = 0
    /\ pre = [timestamps |-> <<>>, temperatures |-> <<>>, total_messages |-> 0,
              high_temps_sum |-> 0, high_temp_count |-> 0, window_messages |-> 0,
              window_start |-> 0, redraws |-> 0, nreports |-> 0, error_logs |-> 0]

\* ------------------------------------------------------------ exceptions
\* An exception e leaves the try body of process_message: either one of its
\* except clauses logs it and the function returns, or it propagates into
\* the try statement of main.
ProcessRaise(e) ==
    IF Caught(e)
    THEN /\ error_logs' = error_logs + 1
         /\ pc' = "poll"
    ELSE /\ pc' = MainHandler(e)
         /\ UNCHANGED error_logs

\* ------------------------------------------------------------ main
Setup ==
    /\ pc = "init"
    /\ timestamps' = <<>>
    /\ temperatures' = <<>>
    /\ rolling_window' = <<>>
    /\ consumer' = "open"
    /\ pc' = "created"
    /\ UNCHANGED <<close_count, delivered, msg, pre, analytics, now, threshold,
                   window_size, visuals, error_logs>>

EnterLoop ==
    /\ pc = "created"
    /\ pc' = "poll"
    /\ UNCHANGED <<source, delivered, msg, pre, history, analytics, now, config,
                   visuals, error_logs>>

Fetch ==
    /\ pc = "poll"
    /\ Len(delivered) < MaxMessages
    /\ \E m \in Messages :
          /\ msg' = m
          /\ delivered' = Append(delivered, m)
    /\ pre' = Snapshot
    /\ pc' = "parse"
    /\ UNCHANGED <<source, history, analytics, now, config, visuals, error_logs>>

Exhausted ==
    /\ pc = "poll"
    /\ pc' = "finally"
    /\ UNCHANGED <<source, delivered, msg, pre, history, analytics, now, config,
                   visuals, error_logs>>

SourceError ==
    /\ pc = "poll"
    /\ pc' = MainHandler("KafkaError")
    /\ UNCHANGED <<source, delivered, msg, pre, history, analytics, now, config,
                   visuals, error_logs>>

InterruptedLog_AlsoCloses ==
    /\ pc = "interrupted"
    /\ consumer' = "closed"
    /\ close_count' = close_count + 1
    /\ pc' = "finally"
    /\ UNCHANGED <<delivered, msg, pre, history, analytics, now, config, visuals,
                   error_logs>>

InterruptedLog ==
    /\ pc = "interrupted"
    /\ pc' = "finally"
    /\ UNCHANGED <<source, delivered, msg, pre, history, analytics, now, config,
                   visuals, error_logs>>

LoopErrorLog ==
    /\ pc = "loop_error"
    /\ error_logs' = error_logs + 1
    /\ pc' = "finally"
    /\ UNCHANGED <<source, delivered, msg, pre, history, analytics, now, config,
                   visuals>>

Close ==
    /\ pc = "finally"
    /\ consumer' = "closed"
    /\ close_count' = close_count + 1
    /\ pc' = "done"
    /\ UNCHANGED <<delivered, msg, pre, history, analytics, now, config, visuals,
                   error_logs>>

\* ------------------------------------------------------------ process_message
Parse ==
    /\ pc = "parse"
    /\ IF msg.form = "text" THEN ProcessRaise("JSONDecodeError")
       ELSE IF msg.form # "object" THEN ProcessRaise("AttributeError")
       ELSE IF MissingField(msg)
            THEN /\ error_logs' = error_logs + 1
                 /\ pc' = "poll"
            ELSE /\ pc' = "app_ts"
                 /\ UNCHANGED error_logs
    /\ UNCHANGED <<source, delivered, msg, pre, history, analytics, now, config,
                   visuals>>

AppendTimestamp ==
    /\ pc = "app_ts"
    /\ timestamps' = Append(timestamps, Get(msg.timestamp))
    /\ pc' = "app_temp"
    /\ UNCHANGED <<source, delivered, msg, pre, temperatures, analytics, now, config,
                   visuals, error_logs>>

AppendTemperature_Prepends ==
    /\ pc = "app_temp"
    /\ temperatures' = <<Get(msg.temperature)>> \o temperatures
    /\ pc' = "count"
    /\ UNCHANGED <<source, delivered, msg, pre, timestamps, analytics, now, config,
                   visuals, error_logs>>

AppendTemperature_Twice ==
    /\ pc = "app_temp"
    /\ temperatures' = Append(Append(temperatures, Get(msg.temperature)),
                              Get(msg.temperature))
    /\ pc' = "count"
    /\ UNCHANGED <<source, delivered, msg, pre, timestamps, analytics, now, config,
                   visuals, error_logs>>

AppendTemperature ==
    /\ pc = "app_temp"
    /\ temperatures' = Append(temperatures, Get(msg.temperature))
    /\ pc' = "count"
    /\ UNCHANGED <<source, delivered, msg, pre, timestamps, analytics, now, config,
                   visuals, error_logs>>

Count_WindowOnly ==
    /\ pc = "count"
    /\ window_messages' = window_messages + 1
    /\ pc' = "compare"
    /\ UNCHANGED <<source, delivered, msg, pre, history, total_messages, high_temps_sum,
                   high_temp_count, window_start, now, config, visuals, error_logs>>

Count ==
    /\ pc = "count"
    /\ total_messages' = total_messages + 1
    /\ window_messages' = window_messages + 1
    /\ pc' = "compare"
    /\ UNCHANGED <<source, delivered, msg, pre, history, high_temps_sum,
                   high_temp_count, window_start, now, config, visuals, error_logs>>

\* The report check moved ahead of the redraw.
Compare_ThenElapsed ==
    /\ pc = "compare"
    /\ LET temperature == Get(msg.temperature) IN
       IF ~Comparable(temperature)
       THEN /\ ProcessRaise("TypeError")
            /\ UNCHANGED <<high_temps_sum, high_temp_count>>
       ELSE /\ IF IsHigh(temperature, threshold)
               THEN /\ high_temps_sum' = high_temps_sum + temperature.n
                    /\ high_temp_count' = high_temp_count + 1
               ELSE UNCHANGED <<high_temps_sum, high_temp_count>>
            /\ pc' = "elapsed"
            /\ UNCHANGED error_logs
    /\ UNCHANGED <<source, delivered, msg, pre, history, total_messages,
                   window_messages, window_start, now, config, visuals>>

Compare ==
    /\ pc = "compare"
    /\ LET temperature == Get(msg.temperature) IN
       IF ~Comparable(temperature)
       THEN /\ ProcessRaise("TypeError")
            /\ UNCHANGED <<high_temps_sum, high_temp_count>>
       ELSE /\ IF IsHigh(temperature, threshold)
               THEN /\ high_temps_sum' = high_temps_sum + temperature.n
                    /\ high_temp_count' = high_temp_count + 1
               ELSE UNCHANGED <<high_temps_sum, high_temp_count>>
            /\ pc' = "chart_clear"
            /\ UNCHANGED error_logs
    /\ UNCHANGED <<source, delivered, msg, pre, history, total_messages,
                   window_messages, window_start, now, config, visuals>>

\* ------------------------------------------------------------ update_chart
ChartClear ==
    /\ pc = "chart_clear"
    /\ chart' = <<>>
    /\ pc' = "chart_draw"
    /\ UNCHANGED <<source, delivered, msg, pre, history, analytics, now, config,
                   redraws, reports, error_logs>>

ChartDraw ==
    /\ pc = "chart_draw"
    /\ IF ~AllComparable(temperatures)
       THEN /\ ProcessRaise("TypeError")
            /\ UNCHANGED <<chart, redraws>>
       ELSE /\ chart' = Bars(timestamps, temperatures, threshold)
            /\ redraws' = redraws + 1
            /\ pc' = "elapsed"
            /\ UNCHANGED error_logs
    /\ UNCHANGED <<source, delivered, msg, pre, history, analytics, now, config,
                   reports>>

\* ------------------------------------------------------------ periodic report
Elapsed_Strict ==
    /\ pc = "elapsed"
    /\ LET elapsed == now - window_start IN
       pc' = IF elapsed > window_size THEN "report" ELSE "poll"
    /\ UNCHANGED <<source, delivered, msg, pre, history, analytics, now, config,
                   visuals, error_logs>>

Elapsed ==
    /\ pc = "elapsed"
    /\ LET elapsed == now - window_start IN
       pc' = IF elapsed >= window_size THEN "report" ELSE "poll"
    /\ UNCHANGED <<source, delivered, msg, pre, history, analytics, now, config,
                   visuals, error_logs>>

Report_ResetsHighs ==
    /\ pc = "report"
    /\ reports' = Append(reports, [total |-> total_messages,
                                    avg |-> AvgShown(high_temps_sum, high_temp_count)])
    /\ high_temps_sum' = 0
    /\ high_temp_count' = 0
    /\ window_messages' = 0
    /\ window_start' = now
    /\ pc' = "poll"
    /\ UNCHANGED <<source, delivered, msg, pre, history, total_messages, now, config,
                   chart, redraws, error_logs>>

Report_ResetsCount ==
    /\ pc = "report"
    /\ reports' = Append(reports, [total |-> total_messages,
                                    avg |-> AvgShown(high_temps_sum, high_temp_count)])
    /\ high_temp_count' = 0
    /\ window_messages' = 0
    /\ window_start' = now
    /\ pc' = "poll"
    /\ UNCHANGED <<source, delivered, msg, pre, history, total_messages, high_temps_sum,
                   now, config, chart, redraws, error_logs>>

Report_KeepsWindow ==
    /\ pc = "report"
    /\ reports' = Append(reports, [total |-> total_messages,
                                    avg |-> AvgShown(high_temps_sum, high_temp_count)])
    /\ window_messages' = 0
    /\ pc' = "poll"
    /\ UNCHANGED <<source, delivered, msg, pre, history, total_messages, high_temps_sum,
                   high_temp_count, window_start, now, config, chart, redraws,
                   error_logs>>

Report ==
    /\ pc = "report"
    /\ reports' = Append(reports, [total |-> total_messages,
                                    avg |-> AvgShown(high_temps_sum, high_temp_count)])
    /\ window_messages' = 0
    /\ window_start' = now
    /\ pc' = "poll"
    /\ UNCHANGED <<source, delivered, msg, pre, history, total_messages,
                   high_temps_sum, high_temp_count, now, config, chart, redraws,
                   error_logs>>

\* ------------------------------------------------------------ environment
\* The user presses Ctrl-C: KeyboardInterrupt is raised at the current
\* statement.  Before the try statement of main nothing handles it.
Interrupt ==
    /\ pc \in StartupPcs \cup LoopPcs
    /\ IF pc \in ProcessPcs THEN ProcessRaise("KeyboardInterrupt")
       ELSE IF pc = "poll" THEN pc' = MainHandler("KeyboardInterrupt") /\ UNCHANGED error_logs
       ELSE pc' = "aborted" /\ UNCHANGED error_logs
    /\ UNCHANGED <<source, delivered, msg, pre, history, analytics, now, config,
                   visuals>>

Tick ==
    /\ now < MaxTime
    /\ now' = now + 1
    /\ UNCHANGED <<pc, source, delivered, msg, pre, history, analytics, config,
                   visuals, error_logs>>

\* Every step but the delivery of a message.
Others ==
    \/ Setup
    \/ EnterLoop
    \/ Exhausted
    \/ SourceError
    \/ InterruptedLog
    \/ LoopErrorLog
    \/ Close
    \/ Parse
    \/ AppendTimestamp
    \/ AppendTemperature
    \/ Count
    \/ Compare
    \/ ChartClear
    \/ ChartDraw
    \/ Elapsed
    \/ Report
    \/ Interrupt
    \/ Tick

Next == Fetch \/ Others

Spec == Init /\ [][Next]_vars

\* Fairness: the single thread always takes its next step; only waiting for
\* the source, the clock and the user are outside the program's control.
ProgramStep ==
    \/ Setup \/ EnterLoop \/ InterruptedLog \/ LoopErrorLog \/ Close
    \/ Parse \/ AppendTimestamp \/ AppendTemperature \/ Count \/ Compare
    \/ ChartClear \/ ChartDraw \/ Elapsed \/ Report

\* Liveness is checked on the runs in which the source delivers at most
\* MaxFairMessages messages.
FairFetch == Fetch /\ Len(delivered) < MaxFairMessages

FairNext == FairFetch \/ Others

FairSpec == Init /\ [][FairNext]_vars /\ WF_vars(ProgramStep)

\* ------------------------------------------------------------ reference
\* What the delivered messages are, judged from their text alone.
HasBothFields(m) ==
    /\ m.form = "object"
    /\ m.timestamp.tag \notin {"absent", "null"}
    /\ m.temperature.tag \notin {"absent", "null"}

IsValidReading(m) == HasBothFields(m) /\ m.temperature.tag = "num"

LacksField(m) == m.form = "object" /\ ~HasBothFields(m)

HighIdx(ms, thr) ==
    {i \in 1..Len(ms) : IsValidReading(ms[i]) /\ ms[i].temperature.n >= thr}

RECURSIVE SumOver(_, _)
SumOver(ms, S) ==
    IF S = {} THEN 0
    ELSE LET i == CHOOSE j \in S : TRUE
         IN  ms[i].temperature.n + SumOver(ms, S \ {i})

HighCountOf(ms, thr) == Cardinality(HighIdx(ms, thr))
HighSumOf(ms, thr) == SumOver(ms, HighIdx(ms, thr))

AllValid(ms) == \A i \in 1..Len(ms) : IsValidReading(ms[i])

LastDelivered == delivered[Len(delivered)]

\* The message just processed ran to completion: the loop is back at the
\* for statement.
AtBoundary == pc = "poll" /\ delivered # <<>>

ReportedThisMessage == Len(reports) = pre.nreports + 1

HistoryAndCountersAsBefore ==
    /\ timestamps = pre.timestamps
    /\ temperatures = pre.temperatures
    /\ total_messages = pre.total_messages
    /\ high_temps_sum = pre.high_temps_sum
    /\ high_temp_count = pre.high_temp_count

\* ------------------------------------------------------------ claims

\* C1: at every message boundary, whatever mix of valid, non-JSON,
\* field-less and non-numeric messages was processed to completion,
\* len(timestamps) = len(temperatures) = total_messages; after N valid
\* messages all three equal N.
C1_LengthsAgree ==
    pc = "poll" =>
        /\ Len(timestamps) = Len(temperatures)
        /\ Len(temperatures) = total_messages
        /\ AllValid(delivered) => total_messages = Len(delivered)

C1_Witness ==
    /\ pc = "poll"
    /\ Len(delivered) = 3
    /\ TextMsg \in {delivered[i] : i \in 1..3}
    /\ \E i \in 1..3 : delivered[i] \in NonNumericMsgs
    /\ \E i \in 1..3 : delivered[i] \in ValidMsgs
    /\ total_messages = 2

\* C2 (as stated): the counters equal the count and the sum of the accepted
\* temperatures >= threshold, and a report shows exactly
\* high_temps_sum / high_temp_count, or 0.0 when the count is 0.
C2_ReportShowsExactAverage ==
    AtBoundary =>
        /\ high_temp_count = HighCountOf(delivered, threshold)
        /\ high_temps_sum = HighSumOf(delivered, threshold)
        /\ ReportedThisMessage =>
              LET shown == reports[Len(reports)].avg
              IN  IF high_temp_count = 0 THEN shown = 0
                  ELSE shown * high_temp_count = 100 * high_temps_sum

\* C2 (amended): the counters are as stated; a report shows the average
\* rounded to two decimal places (the nearest hundredth), or 0.00 when the
\* count is 0; for 80, 95, 100 with threshold 90 that is total 3, count 2,
\* sum 195, average 97.50.
C2_ReportShowsRoundedAverage ==
    AtBoundary =>
        /\ high_temp_count = HighCountOf(delivered, threshold)
        /\ high_temps_sum = HighSumOf(delivered, threshold)
        /\ ReportedThisMessage =>
              LET shown == reports[Len(reports)].avg
                  off == shown * high_temp_count - 100 * high_temps_sum
              IN  IF high_temp_count = 0 THEN shown = 0
                  ELSE 2 * off <= high_temp_count /\ -2 * off <= high_temp_count
        /\ (/\ threshold = 90
            /\ delivered = <<Obj(Str(1), Num(80)), Obj(Str(2), Num(95)),
                             Obj(Str(3), Num(100))>>) =>
              /\ total_messages = 3
              /\ high_temp_count = 2
              /\ high_temps_sum = 195
              /\ ReportedThisMessage => reports[Len(reports)].avg = 9750

C2_Witness ==
    /\ AtBoundary
    /\ ReportedThisMessage
    /\ high_temp_count = 3
    /\ high_temps_sum = 290
    /\ reports[Len(reports)].avg = 9667

\* C3: a JSON object whose timestamp or temperature is absent or null leaves
\* the history, the counters and window_start as they were, draws nothing,
\* reports nothing, and the loop goes on: the next valid message is
\* processed normally.
C3_Step ==
    (pc = "parse" /\ LacksField(msg) /\ pc' # pc) =>
        /\ pc' \in {"poll", "interrupted"}
        /\ UNCHANGED <<timestamps, temperatures, total_messages, high_temps_sum,
                       high_temp_count, window_start, chart, redraws, reports>>

C3_After ==
    AtBoundary =>
        /\ LacksField(LastDelivered) =>
              /\ HistoryAndCountersAsBefore
              /\ window_start = pre.window_start
              /\ redraws = pre.redraws
              /\ Len(reports) = pre.nreports
        /\ (/\ Len(delivered) >= 2
            /\ LacksField(delivered[Len(delivered) - 1])
            /\ IsValidReading(LastDelivered)) =>
              /\ total_messages = pre.total_messages + 1
              /\ timestamps = Append(pre.timestamps, LastDelivered.timestamp)
              /\ temperatures = Append(pre.temperatures, LastDelivered.temperature)

C3_MissingFieldIsNoOp == []C3_After /\ [][C3_Step]_vars

C3_Witness ==
    /\ AtBoundary
    /\ Len(delivered) = 3
    /\ IsValidReading(delivered[1])
    /\ LacksField(delivered[2])
    /\ delivered[2].timestamp.tag = "absent"
    /\ IsValidReading(delivered[3])
    /\ total_messages = 2

\* C4: text that is not JSON leaves the history and every counter as they
\* were, logs one error and is not fatal: "not json" followed by one valid
\* message ends with total_messages = 1 and a history of length 1.
C4_Step ==
    (pc = "parse" /\ msg.form = "text" /\ pc' # pc) =>
        /\ pc' \in {"poll", "interrupted"}
        /\ pc' = "poll" => error_logs' = error_logs + 1
        /\ UNCHANGED <<timestamps, temperatures, total_messages, high_temps_sum,
                       high_temp_count, window_messages, window_start, chart,
                       redraws, reports>>

C4_After ==
    AtBoundary =>
        /\ LastDelivered.form = "text" =>
              /\ HistoryAndCountersAsBefore
              /\ window_start = pre.window_start
              /\ window_messages = pre.window_messages
              /\ error_logs = pre.error_logs + 1
        /\ (Len(delivered) = 2 /\ delivered[1] = TextMsg /\ IsValidReading(delivered[2])) =>
              /\ total_messages = 1
              /\ Len(timestamps) = 1
              /\ Len(temperatures) = 1
              /\ error_logs = 1

C4_NotJsonIsNoOp == []C4_After /\ [][C4_Step]_vars

C4_Witness ==
    /\ AtBoundary
    /\ Len(delivered) = 2
    /\ delivered[1] = TextMsg
    /\ IsValidReading(delivered[2])
    /\ total_messages = 1

\* C5: no failure of one message stops the driver: a message that cannot be
\* decoded, lacks a field, or makes the comparison or the redraw raise is
\* logged inside process_message and the loop is back at the for statement,
\* RUNNING; the driver leaves RUNNING from inside process_message only by a
\* user interruption.
FailingHere ==
    \/ pc = "parse" /\ (msg.form # "object" \/ LacksField(msg))
    \/ pc = "compare" /\ msg.temperature.tag # "num"
    \/ pc = "chart_draw" /\ \E i \in 1..Len(temperatures) : temperatures[i].tag # "num"

C5_Step ==
    /\ (FailingHere /\ pc' # pc /\ ~Interrupt) =>
          pc' = "poll" /\ error_logs' = error_logs + 1
    /\ (pc \in ProcessPcs /\ pc' \in StoppedPcs) => Interrupt

C5_FailuresNeverStopTheLoop == [][C5_Step]_vars

C5_Witness ==
    /\ pc = "parse"
    /\ Len(delivered) = 3
    /\ delivered[1] = TextMsg
    /\ delivered[2] \in NonNumericMsgs
    /\ error_logs = 2
    /\ total_messages = 1

\* C6: every message whose processing logs an error, a non-numeric
\* temperature included, leaves timestamps, temperatures, total_messages,
\* high_temps_sum and high_temp_count as they were.
C6_ErroredMessageLeavesNoTrace ==
    (AtBoundary /\ error_logs > pre.error_logs) => HistoryAndCountersAsBefore

\* C7: once the loop is entered, the source is closed exactly once on each
\* way out of it (source exhausted, user interruption, source error): the
\* handlers lead to the finally clause, the finally clause closes, nothing
\* is closed before it, and nothing is processed after the close.
C7_Closed ==
    /\ close_count <= 1
    /\ pc \in LoopPcs \cup {"interrupted", "loop_error", "finally"} =>
          consumer = "open" /\ close_count = 0
    /\ pc = "done" => consumer = "closed" /\ close_count = 1
    /\ consumer = "closed" => pc = "done"

C7_Step ==
    /\ (pc \in {"interrupted", "loop_error"} /\ pc' # pc) => pc' = "finally"
    /\ (pc = "finally" /\ pc' # pc) => pc' = "done" /\ close_count' = 1
    /\ (pc = "poll" /\ pc' \notin LoopPcs) => pc' \in {"interrupted", "loop_error", "finally"}
    /\ consumer = "closed" =>
          UNCHANGED <<pc, consumer, close_count, delivered, msg, timestamps, temperatures,
                      total_messages, high_temps_sum, high_temp_count, chart,
                      redraws, reports>>

C7_SourceClosedExactlyOnce == []C7_Closed /\ [][C7_Step]_vars

C7_Witness ==
    /\ pc = "done"
    /\ consumer = "closed"
    /\ close_count = 1
    /\ Len(delivered) = 2
    /\ Len(timestamps) = 2
    /\ Len(temperatures) = 1

\* C8: a user interruption while the driver is RUNNING, waiting for a
\* message or anywhere inside process_message / update_chart, takes the
\* driver to STOPPED and is never logged away by the per-message handler; a
\* source error does the same; STOPPED is never left; and from STOPPED the
\* source gets closed.
C8_Step ==
    /\ (RUNNING /\ Interrupt) =>
          pc' = "interrupted" /\ error_logs' = error_logs
    /\ (RUNNING /\ SourceError) => pc' = "loop_error"
    /\ STOPPED => STOPPED'

C8_InterruptionStopsAndCloses ==
    /\ [][C8_Step]_vars
    /\ (STOPPED ~> (pc = "done" /\ consumer = "closed"))

C8_Witness ==
    /\ pc = "done"
    /\ consumer = "closed"
    /\ Len(delivered) = 2
    /\ pre.redraws = 1
    /\ Len(temperatures) = 2
    /\ chart = <<>>
    /\ error_logs = 0

\* C9 (as stated): while the driver is RUNNING a report is printed as soon
\* as the time since window_start reaches the window size, message or no
\* message; each report restarts the window, so the time since window_start
\* never passes the window size.
C9_ReportWheneverWindowElapses ==
    RUNNING => now - window_start <= window_size

\* C9 (amended): a report is printed only as the last step of processing a
\* message that was appended to the history and redrawn, and then exactly
\* when the time since window_start, read after the redraw, is at least the
\* window size; time that passes while waiting for a message or while a
\* rejected message is processed prints nothing.
C9_Step ==
    /\ Len(reports') # Len(reports) =>
          /\ pc = "report"
          /\ Len(reports') = Len(reports) + 1
          /\ redraws = pre.redraws + 1
          /\ Len(timestamps) = Len(pre.timestamps) + 1
    /\ (pc = "elapsed" /\ pc' # pc /\ ~Interrupt) =>
          IF now - window_start >= window_size THEN pc' = "report" ELSE pc' = "poll"
    /\ (pc = "report" /\ pc' # pc /\ ~Interrupt) => Len(reports') = Len(reports) + 1
    /\ (pc \notin {"elapsed", "report"} /\ pc' \in {"elapsed", "report"}) =>
          pc = "chart_draw" /\ redraws' = redraws + 1

C9_ReportOnlyAfterAcceptedMessage == [][C9_Step]_vars

C9_Witness ==
    /\ pc = "poll"
    /\ ReportedThisMessage
    /\ window_size = 1
    /\ pre.window_start = 0
    /\ window_start = 2
    /\ Len(delivered) = 2
    /\ total_messages = 1

\* C10: printing a report restarts window_start and leaves total_messages,
\* high_temps_sum, high_temp_count and the history alone, so every report
\* shows the number of all readings accepted since the start and the
\* (rounded) average of all high readings since the start.
C10_Step ==
    Len(reports') = Len(reports) + 1 =>
        /\ window_start' = now
        /\ UNCHANGED <<total_messages, high_temps_sum, high_temp_count,
                       timestamps, temperatures>>
        /\ LET r == reports'[Len(reports')]
               n == HighCountOf(delivered, threshold)
               off == r.avg * n - 100 * HighSumOf(delivered, threshold)
           IN  /\ r.total = Cardinality({i \in 1..Len(delivered) : HasBothFields(delivered[i])})
               /\ IF n = 0 THEN r.avg = 0 ELSE 2 * off <= n /\ -2 * off <= n

C10_ReportKeepsRunningTotals == [][C10_Step]_vars

C10_Witness ==
    /\ Len(reports) = 2
    /\ reports[1].total = 1
    /\ reports[2].total = 2
    /\ reports[1].avg = 9500
    /\ reports[2].avg = 9750
    /\ window_start = 2

\* C11 (as stated): when the window has elapsed, which is when a report is
\* printed, high_temp_count and high_temps_sum are reset to 0 and
\* total_messages is kept.
C11_HighsResetWhenWindowElapses ==
    (AtBoundary /\ ReportedThisMessage) =>
        /\ high_temp_count = 0
        /\ high_temps_sum = 0
        /\ total_messages = pre.total_messages + 1

\* C11 (amended): nothing ever resets high_temp_count, high_temps_sum or
\* total_messages: no step lowers any of them, however long ago the window
\* elapsed; the step that prints the report sets window_start to the
\* current time and window_messages to 0 and nothing else.
C11_Step ==
    /\ high_temp_count' >= high_temp_count
    /\ high_temps_sum' >= high_temps_sum
    /\ total_messages' >= total_messages
    /\ (pc = "report" /\ pc' = "poll") =>
          /\ now - pre.window_start >= window_size
          /\ window_messages' = 0
          /\ window_start' = now
          /\ high_temp_count' = high_temp_count
          /\ high_temps_sum' = high_temps_sum

C11_HighsNeverReset == [][C11_Step]_vars

C11_Witness ==
    /\ AtBoundary
    /\ ReportedThisMessage
    /\ now - pre.window_start > window_size
    /\ window_messages = 0
    /\ high_temp_count = 2
    /\ high_temps_sum = 195
    /\ total_messages = 3

\* C12: after k accepted readings the rolling window holds the temperatures
\* of the most recent min(k, N) of them in arrival order, N being the
\* configured window size, and never more than N.
LastN(seq, n) ==
    IF Len(seq) <= n THEN seq ELSE SubSeq(seq, Len(seq) - n + 1, Len(seq))

C12_RollingWindowHoldsRecent ==
    pc = "poll" =>
        /\ Len(rolling_window) <= window_size
        /\ rolling_window = LastN(temperatures, window_size)

\* C13: every message that is appended to the history gets exactly one
\* completed redraw, and the chart then shows one bar per reading of the
\* whole history, in insertion order, red iff its temperature >= threshold,
\* whatever was processed earlier in the run.
C13_EveryAppendIsRedrawn ==
    (AtBoundary /\ Len(timestamps) = Len(pre.timestamps) + 1) =>
        /\ redraws = pre.redraws + 1
        /\ Len(chart) = Len(timestamps)
        /\ \A i \in 1..Len(chart) :
              /\ chart[i].x = timestamps[i]
              /\ chart[i].y = temperatures[i]
              /\ chart[i].color = "red" <=> temperatures[i].n >= threshold

\* C14: during the consume loop the history only grows at its end, by at
\* most one entry per message, and its i-th entries are the timestamp and
\* the temperature of the i-th delivered message that had both fields.
RECURSIVE AcceptedOf(_)
AcceptedOf(ms) ==
    IF ms = <<>> THEN <<>>
    ELSE IF HasBothFields(Head(ms)) THEN <<Head(ms)>> \o AcceptedOf(Tail(ms))
    ELSE AcceptedOf(Tail(ms))

IsPrefix(a, b) == Len(a) <= Len(b) /\ \A i \in 1..Len(a) : a[i] = b[i]

C14_Ordered ==
    LET acc == AcceptedOf(delivered)
        stamps == [i \in 1..Len(acc) |-> acc[i].timestamp]
        temps == [i \in 1..Len(acc) |-> acc[i].temperature]
    IN  /\ IsPrefix(timestamps, stamps)
        /\ IsPrefix(temperatures, temps)
        /\ pc = "poll" => timestamps = stamps /\ temperatures = temps
        /\ Len(timestamps) <= Len(pre.timestamps) + 1
        /\ Len(temperatures) <= Len(pre.temperatures) + 1

C14_Step ==
    /\ IsPrefix(timestamps, timestamps')
    /\ IsPrefix(temperatures, temperatures')
    /\ Len(timestamps') <= Len(timestamps) + 1
    /\ Len(temperatures') <= Len(temperatures) + 1

C14_HistoryAppendOnly == []C14_Ordered /\ [][C14_Step]_vars

C14_Witness ==
    /\ pc = "poll"
    /\ Len(delivered) = 3
    /\ LacksField(delivered[2])
    /\ timestamps = <<Str(3), Str(1)>>
    /\ temperatures = <<Num(100), Num(80)>>

\* ------------------------------------------------------------ bar colours
\* update_chart on its own: the state on entry to update_chart for any
\* history of up to MaxColorBars valid readings and any threshold of
\* ColorThresholds, then the two steps of update_chart.
ColorThresholds == {75, 80, 90, 95, 100, 105}

ReadingSeqs == UNION {[1..n -> ValidMsgs] : n \in 1..MaxColorBars}

HighsOf(temps, thr) == {i \in 1..Len(temps) : IsHigh(temps[i], thr)}

RECURSIVE SumAt(_, _)
SumAt(temps, S) ==
    IF S = {} THEN 0
    ELSE LET i == CHOOSE j \in S : TRUE IN temps[i].n + SumAt(temps, S \ {i})

StateAfter(ms, thr, drawn) ==
    LET ts == [i \in 1..Len(ms) |-> ms[i].timestamp]
        temps == [i \in 1..Len(ms) |-> ms[i].temperature]
    IN  [timestamps |-> ts, temperatures |-> temps, total_messages |-> Len(ms),
         high_temps_sum |-> SumAt(temps, HighsOf(temps, thr)),
         high_temp_count |-> Cardinality(HighsOf(temps, thr)),
         window_messages |-> Len(ms), window_start |-> 0, redraws |-> drawn,
         nreports |-> 0, error_logs |-> 0]

ColorInit ==
    \E ms \in ReadingSeqs, thr \in ColorThresholds :
        LET before == SubSeq(ms, 1, Len(ms) - 1)
            at == StateAfter(ms, thr, Len(ms) - 1)
        IN  /\ pc = "chart_clear"
            /\ consumer = "open"
            /\ close_count = 0
            /\ delivered = ms
            /\ msg = ms[Len(ms)]
            /\ pre = StateAfter(before, thr, Len(before))
            /\ timestamps = at.timestamps
            /\ temperatures = at.temperatures
            /\ total_messages = at.total_messages
            /\ high_temps_sum = at.high_temps_sum
            /\ high_temp_count = at.high_temp_count
            /\ window_messages = at.window_messages
            /\ window_start = 0
            /\ now = 0
            /\ threshold = thr
            /\ window_size \in WindowSizes
            /\ rolling_window = <<>>
            /\ chart = Bars(pre.timestamps, pre.temperatures, thr)
            /\ redraws = Len(before)
            /\ reports = <<>>
            /\ error_logs = 0

ColorNext == ChartClear \/ ChartDraw

ColorSpec == ColorInit /\ [][ColorNext]_vars

\* C15: for a fixed set of readings and thresholds t1 <= t2, every bar that
\* is red under t2 is red under t1: raising the threshold never turns a
\* blue bar red.
C15_ColorMonotonicInThreshold ==
    pc = "elapsed" =>
        \A t \in ColorThresholds :
            LET other == Bars(timestamps, temperatures, t)
            IN  \A i \in 1..Len(chart) :
                   /\ (threshold <= t /\ other[i].color = "red") => chart[i].color = "red"
                   /\ (t <= threshold /\ chart[i].color = "red") => other[i].color = "red"

C15_Witness ==
    /\ pc = "elapsed"
    /\ threshold = 90
    /\ Len(chart) = 2
    /\ chart[1].color = "red"
    /\ chart[2].color = "blue"
    /\ Bars(timestamps, temperatures, 95)[1].color = "blue"
    /\ Bars(timestamps, temperatures, 80)[2].color = "red"

\* C16: one message at a time, in order: decode, then the appends and the
\* counters, then the redraw, then the report check; the next message is
\* fetched only when all of that is over.
StepRank ==
    [p \in ProcessPcs |->
        CASE p = "parse" -> 1
          [] p = "app_ts" -> 2
          [] p = "app_temp" -> 3
          [] p = "count" -> 4
          [] p = "compare" -> 5
          [] p = "chart_clear" -> 6
          [] p = "chart_draw" -> 7
          [] p = "elapsed" -> 8
          [] p = "report" -> 9]

C16_Step ==
    /\ (pc \in ProcessPcs /\ pc' \in ProcessPcs /\ pc' # pc) =>
          StepRank[pc'] = StepRank[pc] + 1
    /\ delivered' # delivered =>
          /\ pc = "poll"
          /\ pc' = "parse"
          /\ delivered' = Append(delivered, msg')
    /\ timestamps' # timestamps =>
          /\ temperatures = pre.temperatures
          /\ total_messages = pre.total_messages
          /\ redraws = pre.redraws
    /\ total_messages' # total_messages =>
          /\ Len(timestamps) = Len(pre.timestamps) + 1
          /\ Len(temperatures) = Len(pre.temperatures) + 1
          /\ high_temp_count = pre.high_temp_count
          /\ redraws = pre.redraws
    /\ high_temp_count' # high_temp_count =>
          /\ total_messages = pre.total_messages + 1
          /\ redraws = pre.redraws
    /\ redraws' # redraws =>
          /\ redraws' = pre.redraws + 1
          /\ total_messages = pre.total_messages + 1
          /\ Len(temperatures) = Len(pre.temperatures) + 1
          /\ Len(reports) = pre.nreports
    /\ Len(reports') # Len(reports) => redraws = pre.redraws + 1

C16_StrictlySequential == [][C16_Step]_vars

C16_Witness ==
    /\ pc = "parse"
    /\ Len(delivered) = 3
    /\ IsValidReading(delivered[1])
    /\ IsValidReading(delivered[2])
    /\ redraws = 2
    /\ Len(reports) = 2
    /\ total_messages = 2

\* C17 (as stated): when the driver stops because of an interruption, the
\* message in progress was applied completely or not at all:
\* len(timestamps) = len(temperatures) = total_messages.
C17_InterruptedStateIsWhole ==
    pc = "interrupted" =>
        /\ Len(timestamps) = Len(temperatures)
        /\ Len(temperatures) = total_messages

\* C17 (amended): an interruption can land between two statements of
\* process_message, so the message in progress may be applied in part; in
\* the STOPPED state total_messages <= len(temperatures) <= len(timestamps)
\* <= total_messages + 1, the earlier messages are applied whole, and the
\* three are equal when the interruption came while the driver was waiting
\* for a message.
C17_Stopped ==
    STOPPED =>
        /\ total_messages <= Len(temperatures)
        /\ Len(temperatures) <= Len(timestamps)
        /\ Len(timestamps) <= total_messages + 1
        /\ Len(pre.timestamps) = Len(pre.temperatures)
        /\ Len(pre.temperatures) = pre.total_messages
        /\ pre.total_messages <= total_messages

C17_Step ==
    (pc = "poll" /\ pc' = "interrupted") =>
        /\ Len(timestamps') = Len(temperatures')
        /\ Len(temperatures') = total_messages'

C17_InterruptedStateIsNearlyWhole == []C17_Stopped /\ [][C17_Step]_vars

C17_Witness ==
    /\ pc = "interrupted"
    /\ Len(timestamps) = 2
    /\ Len(temperatures) = 1
    /\ total_messages = 1

\* C18: a report is printed only while a message that was appended to the
\* history and redrawn without error is being processed, never for a
\* rejected message and never on its own; at most one per message;
\* window_start changes only when a report is printed, and then to the
\* current time, at least window_size seconds after its old value: two
\* consecutive reports are at least window_size seconds apart.
C18_AtMostOne ==
    /\ Len(reports) <= pre.nreports + 1
    /\ Len(reports) <= Len(delivered)
    /\ window_start <= now

C18_Step ==
    /\ Len(reports') # Len(reports) =>
          /\ Len(reports') = Len(reports) + 1
          /\ Len(reports) = pre.nreports
          /\ IsValidReading(msg)
          /\ timestamps = Append(pre.timestamps, msg.timestamp)
          /\ temperatures = Append(pre.temperatures, msg.temperature)
          /\ redraws = pre.redraws + 1
          /\ error_logs = pre.error_logs
          /\ delivered' = delivered
          /\ window_start' = now
          /\ window_start' >= window_start + window_size
    /\ window_start' # window_start => Len(reports') = Len(reports) + 1

C18_ReportsOnlyPerAcceptedMessage == []C18_AtMostOne /\ [][C18_Step]_vars

C18_Witness ==
    /\ pc = "poll"
    /\ Len(delivered) = 3
    /\ LastDelivered = TextMsg
    /\ Len(reports) = 2
    /\ window_start = 2
    /\ now = 2
    /\ error_logs = 1

\* C19: with numeric temperatures, in every reachable state
\* 0 <= high_temp_count <= total_messages and
\* high_temps_sum >= threshold * high_temp_count, so every report shows
\* either 0.00 with high_temp_count = 0 or a value >= threshold.
C19_Bounds ==
    /\ 0 <= high_temp_count
    /\ high_temp_count <= total_messages
    /\ high_temps_sum >= threshold * high_temp_count

C19_Step ==
    Len(reports') = Len(reports) + 1 =>
        LET shown == reports'[Len(reports')].avg
        IN  \/ high_temp_count = 0 /\ shown = 0
            \/ high_temp_count > 0 /\ shown >= 100 * threshold

====
